---- MODULE Spec2Model ----
(***************************************************************************)
(* A model of the two QHack challenge scripts:                             *)
(*   QML_Challenges/simple_circuits_30_template (the rotation script) and  *)
(*   QML_Challenges/vqe_500_template            (the eigensolver script).  *)
(*                                                                         *)
(* Text is a sequence of one-character strings.  A float is an exact       *)
(* decimal [m, e] meaning m * 10^(-e), normalised so that m has no         *)
(* trailing zero digit while e > 0.  Energies and costs are integers in    *)
(* units of the convergence threshold (1e-8).  The quantum library         *)
(* (simulation, gradients, optimiser) is outside the repository: parameter *)
(* arrays are abstract points, and the optimiser's update and the random   *)
(* initial parameters are nondeterministic choices among them.             *)
(***************************************************************************)
EXTENDS Integers, Sequences, FiniteSets

VARIABLES
    script,        \* which script runs: "rotation" or "eigensolver"
    stdin,         \* the text read by sys.stdin.read()
    pc,            \* position of the running script / function
    stdout,        \* the lines printed so far, oldest first
    exc,           \* the uncaught exception that ended the run, or "none"
    k,             \* parse_hamiltonian_input: index of the next segment
    coeffs,        \* parse_hamiltonian_input: coeffs
    pauli_terms,   \* parse_hamiltonian_input: pauli_terms
    H,             \* the Hamiltonian handed to find_excited_states
    token,         \* pauli_token_to_operator: its argument
    full_term,     \* pauli_token_to_operator: its outcome
    landscape,     \* find_excited_states: which cost landscape H induces
    i,             \* find_excited_states: outer loop variable
    it,            \* find_excited_states: inner loop variable _
    params,        \* find_excited_states: params
    prev_params,   \* find_excited_states: prev_params
    energies,      \* find_excited_states: energies
    cost,          \* find_excited_states: cost after the last step
    lowest_three_energies,  \* the string find_excited_states returns
    finals,        \* history: params at the exit of each inner loop
    writes,        \* history: number of assignments to each energies[j]
    hit            \* history: the last step met the threshold

vars == <<script, stdin, pc, stdout, exc, k, coeffs, pauli_terms, H, token,
          full_term, landscape, i, it, params, prev_params, energies, cost,
          lowest_three_energies, finals, writes, hit>>

mainVars == <<script, stdin, stdout, exc, k, coeffs, pauli_terms, H>>
pauliVars == <<token, full_term>>
vqeVars == <<landscape, i, it, params, prev_params, energies, cost,
             lowest_three_energies, finals, writes, hit>>

-----------------------------------------------------------------------------
(* Text primitives of the Python runtime.                                  *)

Whitespace == {" ", "\n", "\t"}

Digits == {"0", "1", "2", "3", "4", "5", "6", "7", "8", "9"}

DigitVal(c) ==
    CASE c = "0" -> 0 [] c = "1" -> 1 [] c = "2" -> 2 [] c = "3" -> 3
      [] c = "4" -> 4 [] c = "5" -> 5 [] c = "6" -> 6 [] c = "7" -> 7
      [] c = "8" -> 8 [] c = "9" -> 9

DigitChar(d) ==
    CASE d = 0 -> "0" [] d = 1 -> "1" [] d = 2 -> "2" [] d = 3 -> "3"
      [] d = 4 -> "4" [] d = 5 -> "5" [] d = 6 -> "6" [] d = 7 -> "7"
      [] d = 8 -> "8" [] d = 9 -> "9"

RECURSIVE LStrip(_)
LStrip(s) ==
    IF Len(s) > 0 /\ Head(s) \in Whitespace THEN LStrip(Tail(s)) ELSE s

RECURSIVE RStrip(_)
RStrip(s) ==
    IF Len(s) > 0 /\ s[Len(s)] \in Whitespace
    THEN RStrip(SubSeq(s, 1, Len(s) - 1))
    ELSE s

\* str.strip()
Strip(s) == RStrip(LStrip(s))

\* str.split(sep) for a one-character sep: n separators give n + 1 pieces,
\* the text before the first separator, between each two, and after the last.
Split(s, sep) ==
    LET at == {n \in 1..Len(s) : s[n] = sep}
        count == Cardinality(at)
        cut == [j \in 0..(count + 1) |->
                  IF j = 0 THEN 0
                  ELSE IF j = count + 1 THEN Len(s) + 1
                  ELSE CHOOSE n \in at :
                         Cardinality({m \in at : m <= n}) = j]
    IN  [j \in 1..(count + 1) |-> SubSeq(s, cut[j - 1] + 1, cut[j] - 1)]

\* sep.join(parts)
RECURSIVE Join(_, _)
Join(parts, sep) ==
    IF Len(parts) = 0 THEN <<>>
    ELSE IF Len(parts) = 1 THEN parts[1]
    ELSE parts[1] \o sep \o Join(Tail(parts), sep)

AllDigits(s) == \A n \in 1..Len(s) : s[n] \in Digits

RECURSIVE DigitsValue(_)
DigitsValue(s) ==
    IF Len(s) = 0 THEN 0
    ELSE 10 * DigitsValue(SubSeq(s, 1, Len(s) - 1)) + DigitVal(s[Len(s)])

\* int(text): optional surrounding whitespace, optional sign, digits.
ParseInt(text) ==
    LET s == Strip(text)
        signed == Len(s) > 0 /\ s[1] \in {"+", "-"}
        body == IF signed THEN Tail(s) ELSE s
    IN  IF Len(body) > 0 /\ AllDigits(body)
        THEN [ok |-> TRUE,
              val |-> IF signed /\ s[1] = "-" THEN 0 - DigitsValue(body)
                      ELSE DigitsValue(body)]
        ELSE [ok |-> FALSE, val |-> 0]

RECURSIVE Normalise(_, _)
Normalise(m, e) ==
    IF e > 0 /\ m % 10 = 0 THEN Normalise(m \div 10, e - 1)
    ELSE [m |-> m, e |-> e]

\* A sign flip that is lost.
NegateDropped(x) == x

Negate(x) == [m |-> 0 - x.m, e |-> x.e]

\* float(text): optional surrounding whitespace, optional sign, digits with
\* at most one decimal point and at least one digit.  (Exponents, "inf",
\* "nan" and digit-group underscores need characters the inputs below do
\* not contain.)
ParseFloat(text) ==
    LET s == Strip(text)
        signed == Len(s) > 0 /\ s[1] \in {"+", "-"}
        body == IF signed THEN Tail(s) ELSE s
        parts == Split(body, ".")
        whole == parts[1]
        frac == IF Len(parts) = 2 THEN parts[2] ELSE <<>>
        wellFormed == /\ Len(parts) \in {1, 2}
                      /\ AllDigits(whole) /\ AllDigits(frac)
                      /\ Len(whole) + Len(frac) > 0
        mag == Normalise(DigitsValue(whole \o frac), Len(frac))
    IN  IF wellFormed
        THEN [ok |-> TRUE,
              val |-> IF signed /\ s[1] = "-" THEN Negate(mag) ELSE mag]
        ELSE [ok |-> FALSE, val |-> [m |-> 0, e |-> 0]]

\* str(n) of a whole number.
RECURSIVE NatToStr(_)
NatToStr(n) ==
    IF n < 10 THEN <<DigitChar(n)>>
    ELSE Append(NatToStr(n \div 10), DigitChar(n % 10))

IntToStr(n) == IF n < 0 THEN <<"-">> \o NatToStr(0 - n) ELSE NatToStr(n)

\* str(x) of a float: always with a decimal point, as Python prints it.
FloatToStr(n) == IntToStr(n) \o <<".", "0">>

-----------------------------------------------------------------------------
(* vqe_500_template: pauli_token_to_operator                               *)

Identity(wire) == [name |-> "Identity", wires |-> wire]
PauliX(wire) == [name |-> "PauliX", wires |-> wire]
PauliY(wire) == [name |-> "PauliY", wires |-> wire]
PauliZ(wire) == [name |-> "PauliZ", wires |-> wire]

\* print("Invalid input.")
InvalidInput ==
    <<"I", "n", "v", "a", "l", "i", "d", " ", "i", "n", "p", "u", "t", ".">>

\* A product that puts the new factor first.
MatmulReversed(a, b) == b \o a

\* a @ b: the tensor product keeps its factors in order; a single operator
\* is a product of one factor.
Matmul(a, b) == a \o b

\* The loop over the tokens.  An exception leaves the loop at once; what was
\* printed before it stays printed.
RECURSIVE QubitTerms(_, _, _, _)
QubitTerms(tok, n, qubit_terms, out) ==
    IF n > Len(tok)
    THEN [exc |-> "none", qubit_terms |-> qubit_terms, out |-> out]
    ELSE LET term == tok[n] IN
         IF term = <<"I">>
         THEN QubitTerms(tok, n + 1, Append(qubit_terms, Identity(0)), out)
         ELSE IF Len(term) = 0   \* term[0] of an empty string
         THEN [exc |-> "IndexError", qubit_terms |-> qubit_terms, out |-> out]
         ELSE LET pauli == term[1]
                  qubit_idx == ParseInt(Tail(term))
              IN  IF pauli \in {"X", "Y", "Z"}
                  THEN IF qubit_idx.ok
                       THEN QubitTerms(tok, n + 1,
                                Append(qubit_terms,
                                    CASE pauli = "X" -> PauliX(qubit_idx.val)
                                      [] pauli = "Y" -> PauliY(qubit_idx.val)
                                      [] pauli = "Z" -> PauliZ(qubit_idx.val)),
                                out)
                       ELSE [exc |-> "ValueError",
                             qubit_terms |-> qubit_terms, out |-> out]
                  ELSE QubitTerms(tok, n + 1, qubit_terms,
                                  Append(out, InvalidInput))

RECURSIVE FullTerm(_, _)
FullTerm(acc, rest) ==
    IF Len(rest) = 0 THEN acc
    ELSE FullTerm(Matmul(acc, <<Head(rest)>>), Tail(rest))

\* A conversion that raises on an invalid Pauli letter instead of skipping it.
pauli_token_strict(tok) ==
    LET r == QubitTerms(tok, 1, <<>>, <<>>) IN
    IF r.exc # "none"
    THEN [exc |-> r.exc, full_term |-> <<>>, out |-> r.out]
    ELSE IF Len(r.out) > 0
    THEN [exc |-> "ValueError", full_term |-> <<>>, out |-> r.out]
    ELSE IF Len(r.qubit_terms) = 0
    THEN [exc |-> "IndexError", full_term |-> <<>>, out |-> r.out]
    ELSE [exc |-> "none",
          full_term |-> FullTerm(<<r.qubit_terms[1]>>, Tail(r.qubit_terms)),
          out |-> r.out]

\* The outcome of pauli_token_to_operator(tok): the exception raised or
\* "none", the operator returned (its factors in order) and the lines printed.
pauli_token_to_operator(tok) ==
    LET r == QubitTerms(tok, 1, <<>>, <<>>) IN
    IF r.exc # "none"
    THEN [exc |-> r.exc, full_term |-> <<>>, out |-> r.out]
    ELSE IF Len(r.qubit_terms) = 0   \* qubit_terms[0] of an empty list
    THEN [exc |-> "IndexError", full_term |-> <<>>, out |-> r.out]
    ELSE [exc |-> "none",
          full_term |-> FullTerm(<<r.qubit_terms[1]>>, Tail(r.qubit_terms)),
          out |-> r.out]

-----------------------------------------------------------------------------
(* vqe_500_template: parse_hamiltonian_input                               *)

\* input_data.split("S")
Lines(input_data) == Split(input_data, "S")

\* line.strip().split(" ")
Tokens(line) == Split(Strip(line), " ")

\* The loop body with the exception of the Pauli component swallowed: the
\* coefficient is kept, no term is appended and the loop goes on.
ParseLineSwallow(line, cs, ps) ==
    LET tokens == Tokens(line) IN
    IF Len(tokens) < 2
    THEN [exc |-> "IndexError", coeffs |-> cs, pauli_terms |-> ps, out |-> <<>>]
    ELSE LET sign == tokens[1]
             value == ParseFloat(tokens[2])
         IN  IF ~value.ok
             THEN [exc |-> "ValueError", coeffs |-> cs, pauli_terms |-> ps,
                   out |-> <<>>]
             ELSE LET coeff == IF sign = <<"-">> THEN Negate(value.val)
                               ELSE value.val
                      pauli == SubSeq(tokens, 3, Len(tokens))
                      op == pauli_token_to_operator(pauli)
                  IN  [exc |-> "none",
                       coeffs |-> Append(cs, coeff),
                       pauli_terms |-> IF op.exc = "none"
                                       THEN Append(ps, op.full_term) ELSE ps,
                       out |-> op.out]

\* One pass of the loop body over segment n.  The coefficient is appended
\* before the Pauli component is parsed, so an exception raised there leaves
\* coeffs one longer than pauli_terms.
ParseLine(line, cs, ps) ==
    LET tokens == Tokens(line) IN
    IF Len(tokens) < 2               \* tokens[1]
    THEN [exc |-> "IndexError", coeffs |-> cs, pauli_terms |-> ps, out |-> <<>>]
    ELSE LET sign == tokens[1]
             value == ParseFloat(tokens[2])
         IN  IF ~value.ok            \* float(value)
             THEN [exc |-> "ValueError", coeffs |-> cs, pauli_terms |-> ps,
                   out |-> <<>>]
             ELSE LET coeff == IF sign = <<"-">> THEN Negate(value.val)
                               ELSE value.val
                      pauli == SubSeq(tokens, 3, Len(tokens))
                      op == pauli_token_to_operator(pauli)
                  IN  [exc |-> op.exc,
                       coeffs |-> Append(cs, coeff),
                       pauli_terms |-> IF op.exc = "none"
                                       THEN Append(ps, op.full_term) ELSE ps,
                       out |-> op.out]

\* qml.Hamiltonian(coeffs, observables)
Hamiltonian(cs, ps) == [coeffs |-> cs, ops |-> ps]

NoHamiltonian == Hamiltonian(<<>>, <<>>)

-----------------------------------------------------------------------------
(* vqe_500_template: find_excited_states                                   *)

overlap_weight == 50
num_iter == 500
num_eigen == 3
\* 1e-8, the unit in which energies, overlaps and costs are counted
threshold == 1

\* The number of distinct parameter arrays the optimiser can visit.
NumPoints == 2
Points == 1..NumPoints

\* The energy surface a Hamiltonian induces over the parameter points:
\* "graded" rises by exactly one threshold from point to point, "flat" is
\* constant (a Hamiltonian whose expectation does not depend on the ansatz).
Landscapes == {"graded", "flat"}

\* energy = qml.ExpvalCost(variational_ansatz, H, dev1)
energy(l, x) == IF l = "graded" THEN x - 2 ELSE 0

\* The swap-test qnode: full overlap of a state with itself, none between
\* the states of different points.
overlap(x, y) == IF x = y THEN 1 ELSE 0

RECURSIVE cost_fn(_, _, _)
cost_fn(l, x, overlap_params) ==
    IF Len(overlap_params) = 0 THEN energy(l, x)
    ELSE cost_fn(l, x, SubSeq(overlap_params, 1, Len(overlap_params) - 1))
         + overlap_weight * overlap(x, overlap_params[Len(overlap_params)])

Abs(x) == IF x < 0 THEN 0 - x ELSE x

\* np.zeros(3)
Zeros == [j \in 0..(num_eigen - 1) |-> 0]

\* ",".join([str(E) for E in energies])
EnergiesString(e) ==
    Join([j \in 1..num_eigen |-> FloatToStr(e[j - 1])], <<",">>)

\* for i in range(num_eigen): params = np.random.uniform(...)
BeginRound ==
    /\ pc = "round" /\ i < num_eigen
    /\ \E x \in Points : params' = x
    /\ it' = 0
    /\ pc' = "iter"
    /\ UNCHANGED <<mainVars, pauliVars, landscape, i, prev_params, energies,
                   cost, lowest_three_energies, finals, writes, hit>>

\* A test that also stops on a change of exactly the threshold.
ConvergedLoose(c, prev_cost) == Abs(c - prev_cost) <= threshold

\* |cost - prev_cost| < threshold
Converged(c, prev_cost) == Abs(c - prev_cost) < threshold

\* One pass of the inner loop body: opt.step_and_cost moves params and returns
\* the cost at the old params; the loop is left by the break or when
\* range(num_iter) is used up.
Step ==
    /\ pc = "iter"
    /\ \E x \in Points :
         LET prev_cost == cost_fn(landscape, params, prev_params)
             c == cost_fn(landscape, x, prev_params)
             leave == Converged(c, prev_cost) \/ it + 1 >= num_iter
         IN  /\ params' = x
             /\ cost' = c
             /\ hit' = Converged(c, prev_cost)
             /\ IF leave
                THEN /\ pc' = "store"
                     /\ finals' = Append(finals, x)
                     /\ it' = it
                ELSE /\ pc' = "iter"
                     /\ finals' = finals
                     /\ it' = it + 1
    /\ UNCHANGED <<mainVars, pauliVars, landscape, i, prev_params, energies,
                   lowest_three_energies, writes>>

\* A store of the penalised cost in place of the energy.
StorePenalisedCost ==
    /\ pc = "store"
    /\ energies' = [energies EXCEPT ![i] = cost_fn(landscape, params, prev_params)]
    /\ writes' = [writes EXCEPT ![i] = @ + 1]
    /\ pc' = "append"
    /\ UNCHANGED <<mainVars, pauliVars, landscape, i, it, params, prev_params,
                   cost, lowest_three_energies, finals, hit>>

\* energies[i] = energy(params)
StoreEnergy ==
    /\ pc = "store"
    /\ energies' = [energies EXCEPT ![i] = energy(landscape, params)]
    /\ writes' = [writes EXCEPT ![i] = @ + 1]
    /\ pc' = "append"
    /\ UNCHANGED <<mainVars, pauliVars, landscape, i, it, params, prev_params,
                   cost, lowest_three_energies, finals, hit>>

\* prev_params.append(params), and on to the next i
AppendParams ==
    /\ pc = "append"
    /\ prev_params' = Append(prev_params, params)
    /\ i' = i + 1
    /\ pc' = "round"
    /\ UNCHANGED <<mainVars, pauliVars, landscape, it, params, energies, cost,
                   lowest_three_energies, finals, writes, hit>>

\* return ",".join([str(E) for E in energies])
Return ==
    /\ pc = "round" /\ i >= num_eigen
    /\ lowest_three_energies' = EnergiesString(energies)
    /\ pc' = "returned"
    /\ UNCHANGED <<mainVars, pauliVars, landscape, i, it, params, prev_params,
                   energies, cost, finals, writes, hit>>

\* The locals of find_excited_states before its loop.
VqeIdle ==
    /\ i = 0 /\ it = 0 /\ params = 0 /\ prev_params = <<>>
    /\ energies = Zeros /\ cost = 0 /\ lowest_three_energies = <<>>
    /\ finals = <<>> /\ writes = Zeros /\ hit = FALSE

MainIdle ==
    /\ script = "eigensolver" /\ stdin = <<>> /\ stdout = <<>>
    /\ exc = "none" /\ k = 1 /\ coeffs = <<>> /\ pauli_terms = <<>>
    /\ H = NoHamiltonian

\* pauli_token_to_operator not called yet.
NoOutcome == [exc |-> "none", full_term |-> <<>>, out |-> <<>>]

PauliIdle == token = <<>> /\ full_term = NoOutcome

InitVQE ==
    /\ MainIdle /\ PauliIdle /\ VqeIdle
    /\ landscape \in Landscapes
    /\ pc = "round"

NextVQE == BeginRound \/ Step \/ StoreEnergy \/ AppendParams \/ Return

SpecVQE == InitVQE /\ [][NextVQE]_vars

\* The interpreter runs the function to its end: a step that can be taken
\* is taken.
SpecVQERun == SpecVQE /\ WF_vars(NextVQE)

-----------------------------------------------------------------------------
(* vqe_500_template: the main block                                        *)

\* A loop that drops a segment that raised and goes on to the next one.
ParseSegmentContinue ==
    /\ script = "eigensolver" /\ pc = "parse"
    /\ k <= Len(Lines(stdin))
    /\ LET r == ParseLine(Lines(stdin)[k], coeffs, pauli_terms) IN
         /\ coeffs' = IF r.exc = "none" THEN r.coeffs ELSE coeffs
         /\ pauli_terms' = r.pauli_terms
         /\ stdout' = stdout \o r.out
         /\ exc' = "none"
         /\ k' = k + 1 /\ pc' = "parse"
    /\ UNCHANGED <<script, stdin, H, pauliVars, vqeVars>>

\* One pass of the loop of parse_hamiltonian_input over segment k.
ParseSegment ==
    /\ script = "eigensolver" /\ pc = "parse"
    /\ k <= Len(Lines(stdin))
    /\ LET r == ParseLine(Lines(stdin)[k], coeffs, pauli_terms) IN
         /\ coeffs' = r.coeffs
         /\ pauli_terms' = r.pauli_terms
         /\ stdout' = stdout \o r.out
         /\ exc' = r.exc
         /\ IF r.exc = "none"
            THEN k' = k + 1 /\ pc' = "parse"
            ELSE k' = k /\ pc' = "raised"
    /\ UNCHANGED <<script, stdin, H, pauliVars, vqeVars>>

\* return qml.Hamiltonian(coeffs, pauli_terms): the constructor refuses
\* lists of different lengths.
ParseReturn ==
    /\ script = "eigensolver" /\ pc = "parse"
    /\ k > Len(Lines(stdin))
    /\ IF Len(coeffs) = Len(pauli_terms)
       THEN H' = Hamiltonian(coeffs, pauli_terms) /\ exc' = exc /\ pc' = "find"
       ELSE H' = H /\ exc' = "ValueError" /\ pc' = "raised"
    /\ UNCHANGED <<script, stdin, stdout, k, coeffs, pauli_terms, pauliVars,
                   vqeVars>>

\* lowest_three_energies = find_excited_states(H), taken as one step: three
\* rounds, each ending at some parameter point of the landscape H induces.
\* The function prints nothing.
CallFindExcitedStates ==
    /\ script = "eigensolver" /\ pc = "find"
    /\ \E l \in Landscapes :
       \E e \in [0..(num_eigen - 1) -> {energy(l, x) : x \in Points}] :
         /\ landscape' = l
         /\ energies' = e
         /\ lowest_three_energies' = EnergiesString(e)
    /\ pc' = "print"
    /\ UNCHANGED <<mainVars, pauliVars, i, it, params, prev_params, cost,
                   finals, writes, hit>>

\* print(lowest_three_energies)
PrintEnergies ==
    /\ script = "eigensolver" /\ pc = "print"
    /\ stdout' = Append(stdout, lowest_three_energies)
    /\ pc' = "done"
    /\ UNCHANGED <<script, stdin, exc, k, coeffs, pauli_terms, H, pauliVars,
                   vqeVars>>

-----------------------------------------------------------------------------
(* simple_circuits_30_template: the main block                             *)

\* What the qnode may hand back, by library version: the library's tensor,
\* a plain float, or a plain array.
AnsTypes == {"tensor", "float", "ndarray"}

\* The expectation value of PauliX, in whole units.
ExpValues == {0 - 1, 0, 1}

\* angle = float(sys.stdin.read()); ans = simple_circuits_30(angle); the
\* tensor is unwrapped by .item(); anything but a float raises TypeError;
\* the float is printed.
RotationMain ==
    /\ script = "rotation" /\ pc = "start"
    /\ IF ~ParseFloat(stdin).ok
       THEN /\ exc' = "ValueError" /\ pc' = "raised"
            /\ UNCHANGED stdout
       ELSE \E ty \in AnsTypes, ans \in ExpValues :
              LET unwrapped == IF ty = "tensor" THEN "float" ELSE ty IN
              IF unwrapped # "float"
              THEN /\ exc' = "TypeError" /\ pc' = "raised"
                   /\ UNCHANGED stdout
              ELSE /\ stdout' = Append(stdout, FloatToStr(ans))
                   /\ exc' = exc /\ pc' = "done"
    /\ UNCHANGED <<script, stdin, k, coeffs, pauli_terms, H, pauliVars,
                   vqeVars>>

-----------------------------------------------------------------------------
(* The inputs.                                                             *)

MaxSegments == 2
MaxTokens == 3

\* "sign magnitude pauli pauli ..."
Term(sign, magnitude, paulis) ==
    Join(<<sign, magnitude>> \o paulis, <<" ">>)

One == <<"1", ".", "0">>
Half == <<"0", ".", "5">>

\* The segments an input is made of: well-formed terms, terms with the
\* identity, terms with an invalid Pauli letter, terms with a format error,
\* and segments of fewer than two tokens ("" and "+").
Segments ==
    { Term(<<"+">>, One, << <<"Z", "0">> >>),
      Term(<<"-">>, One, << <<"X", "0">> >>),
      Term(<<"-">>, Half, << <<"Z", "0">>, <<"X", "1">> >>),
      Term(<<"+">>, Half, << <<"I">> >>),
      Term(<<"+">>, One, << <<"I", "2">> >>),
      Term(<<"-">>, One, << <<"Z", "0">>, <<"Q", "0">> >>),
      Term(<<"-">>, Half, << <<"Q", "0">>, <<"Y", "1">>, <<"Q", "1">> >>),
      Term(<<"+">>, Half, << <<"Q", "0">> >>),
      Term(<<"+">>, <<"x">>, << <<"Z", "0">> >>),
      Term(<<"-">>, One, << <<"Z", "x">> >>),
      <<>>,
      <<"+">> }

RECURSIVE SeqsUpTo(_, _)
SeqsUpTo(S, n) ==
    IF n = 0 THEN { <<>> }
    ELSE LET shorter == SeqsUpTo(S, n - 1) IN
         shorter \cup { Append(q, x) : q \in shorter, x \in S }

\* Terms joined as in "+ 1.0 Z0 S- 1.0 X0" or with a space after the "S"
\* too, with or without the newline that ends a file.
HamiltonianInputs ==
    { Join(segs, sep) \o nl :
        segs \in SeqsUpTo(Segments, MaxSegments) \ { <<>> },
        sep \in { <<" ", "S">>, <<" ", "S", " ">> },
        nl \in { <<>>, <<"\n">> } }

AngleInputs ==
    { <<>>, <<"0">>, <<"1", ".", "5">>, <<"1", ".", "5", "\n">>,
      <<"-", "0", ".", "5">>, <<".", "5">>, <<"x">>, <<"1", ".", "5", ".">>,
      <<"1", " ", "5">> }

\* The tokens pauli_token_to_operator is tried on, the empty token (two
\* spaces in a row) among them.
PauliTokens ==
    { <<"X", "0">>, <<"Y", "1">>, <<"Z", "1", "2">>, <<"I">>, <<"I", "2">>,
      <<"Q", "0">>, <<"Z", "x">>, <<"X">>, <<>> }

-----------------------------------------------------------------------------
(* The specifications.                                                     *)

\* Either script, started on some input.
Init ==
    /\ PauliIdle /\ VqeIdle
    /\ landscape = "flat"
    /\ stdout = <<>> /\ exc = "none" /\ k = 1
    /\ coeffs = <<>> /\ pauli_terms = <<>> /\ H = NoHamiltonian
    /\ \/ script = "eigensolver" /\ pc = "parse" /\ stdin \in HamiltonianInputs
       \/ script = "rotation" /\ pc = "start" /\ stdin \in AngleInputs

Next ==
    \/ ParseSegment
    \/ ParseReturn
    \/ CallFindExcitedStates
    \/ PrintEnergies
    \/ RotationMain

Spec == Init /\ [][Next]_vars

\* pauli_token_to_operator applied to a token list.
ApplyPauli ==
    /\ pc = "call"
    /\ full_term' = pauli_token_to_operator(token)
    /\ pc' = "called"
    /\ UNCHANGED <<mainVars, token, vqeVars>>

InitPauli ==
    /\ MainIdle /\ VqeIdle
    /\ landscape = "flat"
    /\ token \in SeqsUpTo(PauliTokens, MaxTokens)
    /\ full_term = NoOutcome
    /\ pc = "call"

NextPauli == ApplyPauli

SpecPauli == InitPauli /\ [][NextPauli]_vars

-----------------------------------------------------------------------------
(* Properties of parse_hamiltonian_input.                                  *)

\* parse_hamiltonian_input has returned a Hamiltonian.
Returned == script = "eigensolver" /\ pc \in {"find", "print", "done"}

\* The tokens of every segment of the input.
TokenTable == [n \in 1..Len(Lines(stdin)) |-> Tokens(Lines(stdin)[n])]

SignToken(T, n) == T[n][1]
Magnitude(T, n) == ParseFloat(T[n][2]).val
PauliPart(T, n) == SubSeq(T[n], 3, Len(T[n]))

\* "+ 1.0 Z0 S- 1.0 X0"
ExampleInput ==
    Join(<< Term(<<"+">>, One, << <<"Z", "0">> >>),
            Term(<<"-">>, One, << <<"X", "0">> >>) >>, <<" ", "S">>)

\* The coefficient the n-th segment stands for.
SignedMagnitude(T, n) ==
    IF SignToken(T, n) = <<"-">>
    THEN [m |-> 0 - Magnitude(T, n).m, e |-> Magnitude(T, n).e]
    ELSE Magnitude(T, n)

\* C1: whenever parse_hamiltonian_input returns, the Hamiltonian has one
\* (coefficient, operator) pair per "S"-separated segment, in segment order;
\* the n-th coefficient is +magnitude when the n-th sign token is "+" and
\* -magnitude when it is "-"; "+ 1.0 Z0 S- 1.0 X0" gives [1.0, -1.0] with
\* the operators Z0 and X0.
C1_OnePairPerSegment ==
    Returned =>
      LET T == TokenTable IN
      /\ Len(H.coeffs) = Len(T)
      /\ Len(H.ops) = Len(T)
      /\ \A n \in 1..Len(T) :
           /\ SignToken(T, n) = <<"+">> => H.coeffs[n] = Magnitude(T, n)
           /\ SignToken(T, n) = <<"-">> =>
                /\ H.coeffs[n].m = 0 - Magnitude(T, n).m
                /\ H.coeffs[n].e = Magnitude(T, n).e
           /\ H.ops[n] = pauli_token_to_operator(PauliPart(T, n)).full_term
      /\ stdin = ExampleInput =>
           /\ H.coeffs = << [m |-> 1, e |-> 0], [m |-> 0 - 1, e |-> 0] >>
           /\ H.ops = << <<PauliZ(0)>>, <<PauliX(0)>> >>

\* The two-term example has been parsed and returned.
C1_Witness == Returned /\ stdin = ExampleInput /\ Len(H.coeffs) = 2

\* C2: while no exception has been raised, after each processed segment and
\* when the Hamiltonian is constructed, coeffs and pauli_terms have the same
\* length (the number of segments processed) and the n-th entry of each
\* comes from the n-th segment.
C2_ListsAligned ==
    (script = "eigensolver" /\ pc # "raised") =>
      LET T == TokenTable IN
      /\ Len(coeffs) = Len(pauli_terms)
      /\ Len(coeffs) = k - 1
      /\ k - 1 <= Len(T)
      /\ \A n \in 1..Len(coeffs) :
           /\ coeffs[n] = SignedMagnitude(T, n)
           /\ n <= Len(pauli_terms) =>
                pauli_terms[n] =
                  pauli_token_to_operator(PauliPart(T, n)).full_term
      /\ Returned => H = Hamiltonian(coeffs, pauli_terms) /\ k - 1 = Len(T)

\* Two segments with different coefficients and operators have been
\* processed and the Hamiltonian has been built from them.
C2_Witness ==
    /\ Returned
    /\ Len(coeffs) = 2 /\ Len(pauli_terms) = 2
    /\ coeffs[1] # coeffs[2] /\ pauli_terms[1] # pauli_terms[2]

-----------------------------------------------------------------------------
(* Properties of pauli_token_to_operator.                                  *)

PauliLetters == {"X", "Y", "Z"}

\* A token the conversion turns into an operator: the bare "I", or X, Y or Z
\* followed by an integer.
Converted(t) ==
    \/ t = <<"I">>
    \/ Len(t) > 0 /\ t[1] \in PauliLetters /\ ParseInt(Tail(t)).ok

\* A token whose first character is no Pauli letter the conversion knows.
InvalidLetter(t) == Len(t) > 0 /\ t # <<"I">> /\ t[1] \notin PauliLetters

\* A token of the form <letter><integer> with the letter among X, Y, Z, I.
LetterIndexForm(t) ==
    Len(t) > 1 /\ t[1] \in PauliLetters \cup {"I"} /\ ParseInt(Tail(t)).ok

\* The single-qubit operator a letter names on a wire.
OperatorOf(letter, wire) ==
    [name |-> CASE letter = "X" -> "PauliX" [] letter = "Y" -> "PauliY"
                [] letter = "Z" -> "PauliZ" [] letter = "I" -> "Identity",
     wires |-> wire]

RECURSIVE SelectTokens(_, _)
SelectTokens(toks, keep) ==
    IF Len(toks) = 0 THEN <<>>
    ELSE IF keep[1] THEN <<Head(toks)>> \o SelectTokens(Tail(toks), Tail(keep))
    ELSE SelectTokens(Tail(toks), Tail(keep))

\* The converted tokens of a list, in token order.
ConvertedTokens(toks) ==
    SelectTokens(toks, [n \in 1..Len(toks) |-> Converted(toks[n])])

InvalidCount(toks) ==
    Cardinality({n \in 1..Len(toks) : InvalidLetter(toks[n])})

\* The factors of the product the conversion is to return for a token list.
ExpectedFactors(toks) ==
    LET conv == ConvertedTokens(toks) IN
    [n \in 1..Len(conv) |->
        IF conv[n] = <<"I">> THEN OperatorOf("I", 0)
        ELSE OperatorOf(conv[n][1], ParseInt(Tail(conv[n])).val)]

\* C3 as stated: every token <letter><index> with the letter among X, Y, Z
\* and I becomes that letter's operator on that index, and the product has
\* one factor per token, in token order.
C3_EveryLetterIndexToken ==
    (pc = "called" /\ Len(token) > 0
       /\ \A n \in 1..Len(token) : LetterIndexForm(token[n])) =>
      /\ full_term.exc = "none"
      /\ Len(full_term.full_term) = Len(token)
      /\ \A n \in 1..Len(token) :
           full_term.full_term[n] =
             OperatorOf(token[n][1], ParseInt(Tail(token[n])).val)

\* C3 (amended): X, Y and Z tokens with an integer index become that
\* letter's operator on that index, the identity is the bare token "I" and
\* acts on qubit 0 (a token such as "I2" counts as an invalid letter and is
\* skipped with a diagnostic), and a returned product has exactly one factor
\* per converted token, in token order.
C3_ConvertedTokensInOrder ==
    (pc = "called" /\ full_term.exc = "none") =>
      /\ full_term.full_term = ExpectedFactors(token)
      /\ Len(full_term.full_term) = Len(token) - InvalidCount(token)
      /\ Len(full_term.out) = InvalidCount(token)
      /\ \A n \in 1..Len(full_term.out) : full_term.out[n] = InvalidInput

\* A product of three factors, the identity among them, built from a list
\* that also held a skipped "I2".
C3_Witness ==
    /\ pc = "called" /\ full_term.exc = "none"
    /\ token = << <<"Y", "1">>, <<"I", "2">>, <<"I">> >>
    /\ full_term.full_term = <<PauliY(1), Identity(0)>>

-----------------------------------------------------------------------------
(* Properties of the eigensolver's error handling and output.              *)

\* A token whose letter is none of X, Y, Z, I.
UnknownLetter(t) == Len(t) > 0 /\ t[1] \notin PauliLetters \cup {"I"}

\* A segment with a format error: fewer than two tokens, a magnitude that is
\* no number, or an X, Y or Z token whose index is no integer.
FormatError(tokens) ==
    \/ Len(tokens) < 2
    \/ ~ParseFloat(tokens[2]).ok
    \/ \E m \in 3..Len(tokens) :
         /\ Len(tokens[m]) > 0 /\ tokens[m][1] \in PauliLetters
         /\ ~ParseInt(Tail(tokens[m])).ok

HasFormatError(T) == \E n \in 1..Len(T) : FormatError(T[n])

\* The input's only defects are Pauli tokens the conversion skips.
OnlySkippedTokens(T) ==
    /\ script = "eigensolver"
    /\ ~HasFormatError(T)
    /\ \A n \in 1..Len(T) : \A m \in 3..Len(T[n]) :
         Converted(T[n][m]) \/ InvalidLetter(T[n][m])
    /\ \E n \in 1..Len(T) : InvalidCount(PauliPart(T, n)) > 0

\* The same, with the skipped tokens all of an unknown letter such as "Q0".
OnlyUnknownLetters(T) ==
    /\ OnlySkippedTokens(T)
    /\ \A n \in 1..Len(T) : \A m \in 3..Len(T[n]) :
         Converted(T[n][m]) \/ UnknownLetter(T[n][m])

RECURSIVE TotalInvalid(_, _)
TotalInvalid(T, n) ==
    IF n = 0 THEN 0
    ELSE TotalInvalid(T, n - 1) + InvalidCount(PauliPart(T, n))

\* C4 as stated: tokens with an invalid letter never make the parse fail.
C4_InvalidLetterNeverFails == OnlyUnknownLetters(TokenTable) => pc # "raised"

\* C4 (amended): a token with an invalid letter is skipped with one
\* diagnostic line and does not fail the parse when its term has at least
\* one token that converts; the term is then returned with the converted
\* factors only.  A term whose Pauli tokens all have invalid letters raises
\* IndexError and no Hamiltonian is returned.
C4_SkippedUnlessNothingConverts ==
    LET T == TokenTable IN
    OnlySkippedTokens(T) =>
      /\ pc = "raised" =>
           /\ exc = "IndexError"
           /\ ConvertedTokens(PauliPart(T, k)) = <<>>
           /\ H = NoHamiltonian
      /\ (\A n \in 1..Len(T) : ConvertedTokens(PauliPart(T, n)) # <<>>)
           => pc # "raised"
      /\ Returned =>
           LET skipped == TotalInvalid(T, Len(T)) IN
           /\ \A n \in 1..Len(T) : H.ops[n] = ExpectedFactors(PauliPart(T, n))
           /\ \A n \in 1..skipped : stdout[n] = InvalidInput
           /\ Len(stdout) = skipped + (IF pc = "done" THEN 1 ELSE 0)

\* A run to the end over "- 0.5 Q0 Y1 Q1": two diagnostics, then the
\* energies, and the term kept as Y1 alone.
C4_Witness ==
    /\ Returned /\ pc = "done"
    /\ stdin = Term(<<"-">>, Half, << <<"Q", "0">>, <<"Y", "1">>, <<"Q", "1">> >>)
    /\ H.ops = << <<PauliY(1)>> >>
    /\ Len(stdout) = 3

\* C5: no returned Hamiltonian has a term with fewer factors than the term
\* had Pauli tokens in the input.
C5_NoTokenVanishes ==
    Returned =>
      LET T == TokenTable IN
      \A n \in 1..Len(T) : Len(H.ops[n]) = Len(PauliPart(T, n))

\* C6: with a format error in any segment the run ends in an uncaught
\* exception: the parse never reaches its return, no Hamiltonian is built,
\* find_excited_states is not called and no energy line is printed.
C6_FormatErrorAborts ==
    LET T == TokenTable IN
    (script = "eigensolver" /\ HasFormatError(T)) =>
      /\ pc \in {"parse", "raised"}
      /\ pc = "parse" => k <= Len(T) /\ exc = "none"
      /\ pc = "raised" => exc \in {"ValueError", "IndexError"}
      /\ H = NoHamiltonian
      /\ lowest_three_energies = <<>>
      /\ \A n \in 1..Len(stdout) : stdout[n] = InvalidInput

\* The second segment's magnitude is no number: the run stops there with the
\* first segment already parsed.
C6_Witness ==
    LET T == TokenTable IN
    /\ script = "eigensolver" /\ pc = "raised" /\ exc = "ValueError"
    /\ k = 2 /\ Len(coeffs) = 1 /\ Len(pauli_terms) = 1
    /\ ~FormatError(T[1])
    /\ Len(T[2]) >= 2 /\ ~ParseFloat(T[2][2]).ok

\* C8: a run that ends without an exception has written exactly one line:
\* one float (rotation) or three comma-separated floats (eigensolver).
C8_ExactlyOneLine ==
    pc = "done" =>
      /\ Len(stdout) = 1
      /\ script = "rotation" => ParseFloat(stdout[1]).ok
      /\ script = "eigensolver" =>
           LET fields == Split(stdout[1], ",") IN
           /\ Len(fields) = num_eigen
           /\ \A n \in 1..Len(fields) : ParseFloat(fields[n]).ok

-----------------------------------------------------------------------------
(* Properties of find_excited_states.                                      *)

RECURSIVE Pow10(_)
Pow10(n) == IF n = 0 THEN 1 ELSE 10 * Pow10(n - 1)

\* a <= b for two decimals
DecimalLeq(a, b) == a.m * Pow10(b.e) <= b.m * Pow10(a.e)

\* C7: the three energies of the returned string are in ascending order.
C7_EnergiesAscending ==
    pc = "returned" =>
      LET fields == Split(lowest_three_energies, ",")
          E(n) == ParseFloat(fields[n]).val
      IN  /\ Len(fields) = num_eigen
          /\ \A n \in 1..(Len(fields) - 1) : DecimalLeq(E(n), E(n + 1))

\* The place of an optimiser step in the 3 x 500 grid of loop passes.
StepIndex == num_iter * i + it

\* A measure every step of find_excited_states increases.
Rank ==
    LET phase == CASE pc = "round" -> 0 [] pc = "iter" -> 1
                   [] pc = "store" -> 2 [] pc = "append" -> 3
                   [] pc = "returned" -> 1
    IN  (4 * i + phase) * num_iter + (IF pc = "iter" THEN it ELSE 0)

\* C9: find_excited_states terminates after exactly 3 rounds; a round takes
\* between 1 and 500 optimiser steps and is left at the first step whose
\* cost differs from the cost before it by less than the threshold, or
\* after the 500th; every optimiser step has its own place among the
\* 3 * 500 loop passes, so there are at most 1500 of them.
C9_BoundedRounds ==
    /\ [](/\ Rank <= (4 * num_eigen + 1) * num_iter
          /\ pc = "iter" =>
               /\ i < num_eigen /\ it >= 0 /\ it < num_iter
               /\ StepIndex < num_eigen * num_iter
               /\ it > 0 => ~hit
          /\ pc = "store" =>
               /\ it + 1 >= 1 /\ it + 1 <= num_iter
               /\ hit \/ it + 1 = num_iter
          /\ pc = "returned" => i = num_eigen /\ Len(finals) = num_eigen)
    /\ [][/\ Rank' > Rank
          /\ pc = "iter" =>
               LET met == Abs(cost' - cost_fn(landscape, params, prev_params))
                            < threshold
               IN  /\ pc' \in {"iter", "store"}
                   /\ i' = i
                   /\ (pc' = "store") <=> (met \/ it + 1 = num_iter)
                   /\ pc' = "iter" => StepIndex' = StepIndex + 1
                   /\ pc' = "store" => it' = it /\ hit' = met
          /\ pc = "round" /\ pc' = "iter" => it' = 0
          /\ pc = "append" => i' = i + 1]_vars
    /\ <>(pc = "returned")

\* The third round used all of its 500 steps without meeting the threshold.
C9_Witness ==
    /\ pc = "store" /\ i = num_eigen - 1 /\ it = num_iter - 1 /\ ~hit
    /\ script = "eigensolver"

RECURSIVE PenaltySum(_, _)
PenaltySum(x, n) ==
    IF n = 0 THEN 0
    ELSE PenaltySum(x, n - 1) + overlap_weight * overlap(x, finals[n])

\* C10: in round i prev_params holds the final parameters of rounds 0..i-1
\* in round order; the cost of round i is the energy plus 50 times the
\* overlap with each of them; energies[i] is written once, with the energy
\* of round i's final parameters, before they are appended to prev_params.
C10_PreviousRounds ==
    /\ pc \in {"round", "iter", "returned"} =>
         prev_params = finals /\ Len(prev_params) = i
    /\ pc \in {"store", "append"} =>
         /\ Len(finals) = i + 1 /\ finals[i + 1] = params
         /\ prev_params = SubSeq(finals, 1, i)
    /\ ((pc = "iter" /\ it > 0) \/ pc = "store") =>
         cost = energy(landscape, params) + PenaltySum(params, i)
    /\ \A j \in 0..(num_eigen - 1) :
         IF j < i \/ (j = i /\ pc = "append")
         THEN writes[j] = 1 /\ energies[j] = energy(landscape, finals[j + 1])
         ELSE writes[j] = 0 /\ energies[j] = 0

\* The third round ended on the parameters of the first: its energy is
\* stored, its cost carries one overlap penalty, and prev_params still
\* holds the two earlier rounds only.
C10_Witness ==
    /\ pc = "append" /\ i = 2 /\ writes[2] = 1
    /\ Len(prev_params) = 2 /\ prev_params[1] # prev_params[2]
    /\ params = prev_params[1]
    /\ cost = energy(landscape, params) + overlap_weight

====
